---- MODULE Spec2Model ----
(***************************************************************************)
(* Latent buildslaves started through a DRMAA scheduler session:           *)
(*   master/buildbot/buildslave/drmaabot.py   DRMAALatentBuildSlave        *)
(*   master/buildbot/buildslave/htcondor.py   HTCondorLatentBuildSlave     *)
(*   master/buildbot/buildslave/gridengine.py GridEngineLatentBuildSlave   *)
(*                                                                         *)
(* Python values are tagged records, so that None, the string 'None' and   *)
(* an integer stay distinct: None is [t |-> "NoneType"], a string is       *)
(* [t |-> "str", v |-> ...], an integer is [t |-> "int", v |-> ...].       *)
(*                                                                         *)
(* The specifications share the variables:                                 *)
(*   Spec        lifecycle calls (__init__, start_instance, stop_instance) *)
(*               of several instances, each call run to completion;        *)
(*   SpecThreads _get_persistent_drmaa_session executed line by line by    *)
(*               several threads at once;                                  *)
(*   SpecRender  _setup_htcondor_template applied to bounded inputs;       *)
(*   SpecEscape  _htcondor_env_value applied to bounded inputs;            *)
(*   SpecVariants  one HTCondor or GridEngine instance: constructor,       *)
(*               changes of its options, start_instance, stop_instance.    *)
(***************************************************************************)
EXTENDS Integers, Sequences, FiniteSets, TLC

VARIABLES
    drmaa,                  \* the module global drmaa: TRUE when `import drmaa` succeeded, FALSE when it is None
    _drmaa_session,         \* DRMAALatentBuildSlave._drmaa_session (class attribute)
    class_contact,          \* DRMAALatentBuildSlave.drmaa_session_contact (class attribute)
    inst_contact,           \* self.drmaa_session_contact, None while the instance has not set it
    job_id,                 \* self.job_id of each instance
    job_template,           \* self.job_template of each instance
    connections,            \* scheduler side: number of drmaa.Session(...) made so far
    refused_connects,       \* scheduler side: number of drmaa.Session(...) calls that raised
    next_job,               \* scheduler side: number of jobs accepted by runJob so far
    submitted,              \* scheduler side: job ids returned to each instance by runJob
    terminate_issued,       \* scheduler side: job ids a control(TERMINATE) call has carried
    resolved,               \* scheduler side: job ids whose termination was acknowledged or found invalid
    last,                   \* what the most recent lifecycle call did and returned
    pc,                     \* SpecThreads: each thread's line in _get_persistent_drmaa_session
    session,                \* SpecThreads: each thread's local variable `session`
    returned,               \* SpecThreads: what the getter returned to each thread
    slavename,              \* SpecRender: self.slavename
    password,               \* SpecRender: self.password, a sequence of characters
    missing_timeout,        \* SpecRender: self.missing_timeout
    kwargs,                 \* SpecRender: the keyword arguments of the call
    rw_first,               \* SpecRender: where iteration of submit_description_rw starts
    ro_first,               \* SpecRender: where iteration of submit_description_ro starts
    native_spec,            \* SpecRender: the returned text, a sequence of newline-terminated chunks
    rendered,               \* SpecRender: "no" before the call, then "returned" or "raised"
    env_value,              \* SpecEscape: what _htcondor_env_value returned, <<>> before the call
    variant,                \* the class of each instance: "base", "htcondor" or "gridengine"
    job_options,            \* GridEngine: self.job_options of each instance
    job_resources,          \* GridEngine: self.job_resources of each instance
    nativeSpecification     \* self.job_template.nativeSpecification of each instance, a sequence of pieces

session_vars == <<drmaa, _drmaa_session, class_contact, inst_contact, connections,
                  refused_connects>>
life_vars    == <<job_id, job_template, next_job, submitted, terminate_issued, resolved, last>>
thread_vars  == <<pc, session, returned>>
render_vars  == <<slavename, password, missing_timeout, kwargs, rw_first, ro_first,
                  native_spec, rendered>>
escape_vars  == <<env_value>>
variant_vars == <<variant, job_options, job_resources, nativeSpecification>>
vars         == <<session_vars, life_vars, thread_vars, render_vars, escape_vars, variant_vars>>

-----------------------------------------------------------------------------
(* Bounds *)

NumSlaves == 2      \* controller instances (and threads of SpecThreads)
MaxJobs   == 2      \* jobs the scheduler accepts in one behaviour
MaxSecretLen == 4   \* characters of a secret given to _htcondor_env_value
MaxRefusals == 1    \* drmaa.Session(...) calls the scheduler refuses in one behaviour

Slaves == 1..NumSlaves

-----------------------------------------------------------------------------
(* Python values *)

None == [t |-> "NoneType"]
PyStr(s) == [t |-> "str", v |-> s]
PyInt(n) == [t |-> "int", v |-> n]

\* Python truth value of the values the code tests with `if x` / `if not x`
Truthy(x) ==
    CASE x.t = "NoneType" -> FALSE
      [] x.t = "str"      -> x.v # ""
      [] x.t = "int"      -> x.v # 0
      [] OTHER            -> TRUE

\* drmaa.Session: the n-th connection made, with the contact string it is attached to
Session(n, contact) == [t |-> "Session", n |-> n, contact |-> contact]

\* the contact string the scheduler generates for the n-th connection
FreshContact(n) == PyStr("session" \o ToString(n))

\* the job identifier the scheduler returns for the n-th accepted job
JobId(n) == PyStr(ToString(n) \o ".0")

\* attribute lookup self.drmaa_session_contact: the instance's, else the class's
drmaa_session_contact(i) ==
    IF inst_contact[i] # None THEN inst_contact[i] ELSE class_contact

-----------------------------------------------------------------------------
(* The scheduler, seen through the DRMAA calls the code makes.  What each  *)
(* call answers is the scheduler's choice.                                 *)

ConnectOutcomes == {"ok", "error"}              \* drmaa.Session(...) returns or raises
RunJobOutcomes  == {"ok", "error"}              \* runJob returns an identifier or raises
ControlOutcomes == {"ok", "invalid", "error"}   \* control returns, raises InvalidJobException, raises another error

StartCommands == {"run_buildslave.py"}          \* slave_start_cmd values

\* one call received by the scheduler: its name, what it carried (the job
\* identifier of control, the job template of runJob with its
\* nativeSpecification, None when it carries nothing) and what the scheduler
\* answered
Call(name, arg, answer) == [call |-> name, arg |-> arg, answer |-> answer]

-----------------------------------------------------------------------------
(* drmaabot.py, each call run to completion *)

\* faulty variant of _get_persistent_drmaa_session: the class attribute is
\* not consulted and every call connects
_get_persistent_drmaa_session_reconnects(i, connect) ==
    LET s == Session(connections + 1, FreshContact(connections + 1))
    IN  [raised |-> FALSE, cls |-> s, contact |-> s.contact, made |-> 1, refused |-> 0,
         calls |-> <<Call("Session", None, "ok")>>, ret |-> s]

\* _get_persistent_drmaa_session: what the call leaves in the class attribute
\* (cls) and in self.drmaa_session_contact (contact), how many connections it
\* made, the drmaa.Session(...) calls it made, and what it returns (ret)
\* unless it raised.  With drmaa None the attribute lookup drmaa.Session
\* raises before any call is made.
_get_persistent_drmaa_session(i, connect) ==
    IF ~Truthy(_drmaa_session)
    THEN IF ~drmaa
         THEN [raised |-> TRUE, cls |-> _drmaa_session, contact |-> inst_contact[i],
               made |-> 0, refused |-> 0, calls |-> <<>>, ret |-> None]
         ELSE IF connect = "error"
         THEN [raised |-> TRUE, cls |-> _drmaa_session, contact |-> inst_contact[i],
               made |-> 0, refused |-> 1,
               calls |-> <<Call("Session", None, "error")>>, ret |-> None]
         ELSE IF Truthy(drmaa_session_contact(i))
              THEN LET s == Session(connections + 1, drmaa_session_contact(i))
                   IN  [raised |-> FALSE, cls |-> s, contact |-> inst_contact[i],
                        made |-> 1, refused |-> 0,
                        calls |-> <<Call("Session", None, "ok")>>, ret |-> s]
              ELSE LET s == Session(connections + 1, FreshContact(connections + 1))
                   IN  [raised |-> FALSE, cls |-> s, contact |-> s.contact,
                        made |-> 1, refused |-> 0,
                        calls |-> <<Call("Session", None, "ok")>>, ret |-> s]
    ELSE [raised |-> FALSE, cls |-> _drmaa_session, contact |-> inst_contact[i],
          made |-> 0, refused |-> 0, calls |-> <<>>, ret |-> _drmaa_session]

\* the effect of a getter call g made by instance i on the session state
SessionEffect(i, g) ==
    /\ _drmaa_session' = g.cls
    /\ inst_contact' = [inst_contact EXCEPT ![i] = g.contact]
    /\ connections' = connections + g.made
    /\ refused_connects' = refused_connects + g.refused
    /\ UNCHANGED <<drmaa, class_contact>>

Exists(i) == job_template[i] # None

\* faulty variant of __init__: the instance keeps a job template although
\* no session could be obtained
__init___keeps_template(i, slave_start_cmd, connect) ==
    LET g == _get_persistent_drmaa_session(i, connect) IN
    /\ ~Exists(i)
    /\ SessionEffect(i, g)
    /\ IF g.raised
       THEN /\ job_template' = [job_template EXCEPT ![i] =
                    [remoteCommand |-> slave_start_cmd]]
            /\ last' = [op |-> "__init__", slave |-> i, outcome |-> "error",
                        session |-> None, calls |-> g.calls, log |-> <<>>]
       ELSE /\ job_template' = [job_template EXCEPT ![i] =
                    [remoteCommand |-> slave_start_cmd]]
            /\ last' = [op |-> "__init__", slave |-> i, outcome |-> "success",
                        session |-> g.ret,
                        calls |-> g.calls \o <<Call("createJobTemplate", None, "ok")>>,
                        log |-> <<>>]
    /\ UNCHANGED <<job_id, next_job, submitted, terminate_issued, resolved>>

\* __init__ (with _get_blank_job_template): obtain the session, create a blank
\* template on it and set its remoteCommand.  With drmaa None the call ends
\* in an exception whether config.error raises or only records the error:
\* line 47 then reaches drmaa.Session on None.
__init__(i, slave_start_cmd, connect) ==
    LET g == _get_persistent_drmaa_session(i, connect) IN
    /\ ~Exists(i)
    /\ SessionEffect(i, g)
    /\ IF g.raised
       THEN /\ UNCHANGED job_template
            /\ last' = [op |-> "__init__", slave |-> i, outcome |-> "error",
                        session |-> None, calls |-> g.calls, log |-> <<>>]
       ELSE /\ job_template' = [job_template EXCEPT ![i] =
                    [remoteCommand |-> slave_start_cmd]]
            /\ last' = [op |-> "__init__", slave |-> i, outcome |-> "success",
                        session |-> g.ret,
                        calls |-> g.calls \o <<Call("createJobTemplate", None, "ok")>>,
                        log |-> <<>>]
    /\ UNCHANGED <<job_id, next_job, submitted, terminate_issued, resolved>>

\* the template runJob receives: self.job_template as it is when the call is
\* made, after what the caller assigned to its nativeSpecification
SubmittedTemplate(i) ==
    [remoteCommand |-> job_template[i].remoteCommand,
     nativeSpecification |-> nativeSpecification'[i]]

\* faulty variant of _start_instance: the identifier slot is marked before
\* runJob is called and the mark survives a failed submission
_start_instance_marks_pending(i, connect, run) ==
    LET g == _get_persistent_drmaa_session(i, connect) IN
    /\ SessionEffect(i, g)
    /\ IF g.raised
       THEN /\ UNCHANGED <<job_id, next_job, submitted>>
            /\ last' = [op |-> "start_instance", slave |-> i, outcome |-> "error",
                        session |-> None, calls |-> g.calls, log |-> <<>>]
       ELSE IF run = "error"
       THEN /\ job_id' = [job_id EXCEPT ![i] = PyStr("pending")]
            /\ UNCHANGED <<next_job, submitted>>
            /\ last' = [op |-> "start_instance", slave |-> i, outcome |-> "error",
                        session |-> g.ret,
                        calls |-> g.calls \o <<Call("runJob", SubmittedTemplate(i), "error")>>,
                        log |-> <<>>]
       ELSE /\ next_job < MaxJobs
            /\ next_job' = next_job + 1
            /\ job_id' = [job_id EXCEPT ![i] = JobId(next_job + 1)]
            /\ submitted' = [submitted EXCEPT ![i] = @ \cup {JobId(next_job + 1)}]
            /\ last' = [op |-> "start_instance", slave |-> i, outcome |-> "success",
                        session |-> g.ret,
                        calls |-> g.calls \o <<Call("runJob", SubmittedTemplate(i), "ok")>>,
                        log |-> <<"queued">>]
    /\ UNCHANGED <<job_template, terminate_issued, resolved>>

\* faulty variant of _start_instance: the returned identifier is stored in
\* the class attribute job_id, which every instance reads
_start_instance_class_job_id(i, connect, run) ==
    LET g == _get_persistent_drmaa_session(i, connect) IN
    /\ SessionEffect(i, g)
    /\ IF g.raised
       THEN /\ UNCHANGED <<job_id, next_job, submitted>>
            /\ last' = [op |-> "start_instance", slave |-> i, outcome |-> "error",
                        session |-> None, calls |-> g.calls, log |-> <<>>]
       ELSE IF run = "error"
       THEN /\ UNCHANGED <<job_id, next_job, submitted>>
            /\ last' = [op |-> "start_instance", slave |-> i, outcome |-> "error",
                        session |-> g.ret,
                        calls |-> g.calls \o <<Call("runJob", SubmittedTemplate(i), "error")>>,
                        log |-> <<>>]
       ELSE /\ next_job < MaxJobs
            /\ next_job' = next_job + 1
            /\ job_id' = [j \in Slaves |-> JobId(next_job + 1)]
            /\ submitted' = [submitted EXCEPT ![i] = @ \cup {JobId(next_job + 1)}]
            /\ last' = [op |-> "start_instance", slave |-> i, outcome |-> "success",
                        session |-> g.ret,
                        calls |-> g.calls \o <<Call("runJob", SubmittedTemplate(i), "ok")>>,
                        log |-> <<"queued">>]
    /\ UNCHANGED <<job_template, terminate_issued, resolved>>

\* faulty variant of _start_instance: remoteCommand is assigned again before
\* the template is submitted
_start_instance_resets_command(i, connect, run) ==
    LET g == _get_persistent_drmaa_session(i, connect) IN
    /\ SessionEffect(i, g)
    /\ IF g.raised
       THEN /\ UNCHANGED <<job_id, next_job, submitted>>
            /\ last' = [op |-> "start_instance", slave |-> i, outcome |-> "error",
                        session |-> None, calls |-> g.calls, log |-> <<>>]
       ELSE IF run = "error"
       THEN /\ UNCHANGED <<job_id, next_job, submitted>>
            /\ last' = [op |-> "start_instance", slave |-> i, outcome |-> "error",
                        session |-> g.ret,
                        calls |-> g.calls \o <<Call("runJob", SubmittedTemplate(i), "error")>>,
                        log |-> <<>>]
       ELSE /\ next_job < MaxJobs
            /\ next_job' = next_job + 1
            /\ job_id' = [job_id EXCEPT ![i] = JobId(next_job + 1)]
            /\ submitted' = [submitted EXCEPT ![i] = @ \cup {JobId(next_job + 1)}]
            /\ last' = [op |-> "start_instance", slave |-> i, outcome |-> "success",
                        session |-> g.ret,
                        calls |-> g.calls \o <<Call("runJob", SubmittedTemplate(i), "ok")>>,
                        log |-> <<"queued">>]
    /\ job_template' = [job_template EXCEPT ![i] = [remoteCommand |-> "buildslave"]]
    /\ UNCHANGED <<terminate_issued, resolved>>

\* _start_instance: submit self.job_template and store the returned identifier
_start_instance(i, connect, run) ==
    LET g == _get_persistent_drmaa_session(i, connect) IN
    /\ SessionEffect(i, g)
    /\ IF g.raised
       THEN /\ UNCHANGED <<job_id, next_job, submitted>>
            /\ last' = [op |-> "start_instance", slave |-> i, outcome |-> "error",
                        session |-> None, calls |-> g.calls, log |-> <<>>]
       ELSE IF run = "error"
       THEN /\ UNCHANGED <<job_id, next_job, submitted>>
            /\ last' = [op |-> "start_instance", slave |-> i, outcome |-> "error",
                        session |-> g.ret,
                        calls |-> g.calls \o <<Call("runJob", SubmittedTemplate(i), "error")>>,
                        log |-> <<>>]
       ELSE /\ next_job < MaxJobs
            /\ next_job' = next_job + 1
            /\ job_id' = [job_id EXCEPT ![i] = JobId(next_job + 1)]
            /\ submitted' = [submitted EXCEPT ![i] = @ \cup {JobId(next_job + 1)}]
            /\ last' = [op |-> "start_instance", slave |-> i, outcome |-> "success",
                        session |-> g.ret,
                        calls |-> g.calls \o <<Call("runJob", SubmittedTemplate(i), "ok")>>,
                        log |-> <<"queued">>]
    /\ UNCHANGED <<job_template, terminate_issued, resolved>>

\* start_instance: deferToThread(self._start_instance)
start_instance(i, connect, run) ==
    /\ Exists(i)
    /\ _start_instance(i, connect, run)

\* faulty variant of _terminate_drmaa_job: InvalidJobException is logged and
\* raised again like any other error
_terminate_drmaa_job_raises_invalid(i, g, control) ==
    IF g.raised
    THEN [raised |-> TRUE, calls |-> <<>>, log |-> <<>>]
    ELSE CASE control = "ok" ->
                [raised |-> FALSE, calls |-> <<Call("control", job_id[i], control)>>,
                 log |-> <<"Stopped">>]
           [] control = "invalid" ->
                [raised |-> TRUE, calls |-> <<Call("control", job_id[i], control)>>,
                 log |-> <<"no longer valid">>]
           [] OTHER ->
                [raised |-> TRUE, calls |-> <<Call("control", job_id[i], control)>>,
                 log |-> <<"Terminate error">>]

\* _terminate_drmaa_job: the control call on self.job_id and how its answer
\* is handled; raised tells whether the call ends in an exception
_terminate_drmaa_job(i, g, control) ==
    IF g.raised
    THEN [raised |-> TRUE, calls |-> <<>>, log |-> <<>>]
    ELSE CASE control = "ok" ->
                [raised |-> FALSE, calls |-> <<Call("control", job_id[i], control)>>,
                 log |-> <<"Stopped">>]
           [] control = "invalid" ->
                [raised |-> FALSE, calls |-> <<Call("control", job_id[i], control)>>,
                 log |-> <<"no longer valid">>]
           [] OTHER ->
                [raised |-> TRUE, calls |-> <<Call("control", job_id[i], control)>>,
                 log |-> <<"Terminate error">>]

\* faulty variant of _stop_instance: job_id is not cleared after the job
\* was terminated
_stop_instance_keeps_id(i, connect, control) ==
    LET g == _get_persistent_drmaa_session(i, connect)
        t == _terminate_drmaa_job(i, g, control)
        carried == {t.calls[k].arg : k \in 1..Len(t.calls)}
    IN
    /\ SessionEffect(i, g)
    /\ terminate_issued' = terminate_issued \cup carried
    /\ resolved' = IF t.raised THEN resolved ELSE resolved \cup carried
    /\ job_id' = job_id
    /\ last' = [op |-> "stop_instance", slave |-> i,
                outcome |-> IF t.raised THEN "error" ELSE "success",
                session |-> g.ret, calls |-> g.calls \o t.calls,
                log |-> <<"Stopping">> \o t.log]

\* _stop_instance: terminate the job, then clear job_id; an exception of
\* _terminate_drmaa_job leaves the method before the assignment
_stop_instance(i, connect, control) ==
    LET g == _get_persistent_drmaa_session(i, connect)
        t == _terminate_drmaa_job(i, g, control)
        carried == {t.calls[k].arg : k \in 1..Len(t.calls)}
    IN
    /\ SessionEffect(i, g)
    /\ terminate_issued' = terminate_issued \cup carried
    /\ resolved' = IF t.raised THEN resolved ELSE resolved \cup carried
    /\ job_id' = IF t.raised THEN job_id ELSE [job_id EXCEPT ![i] = None]
    /\ last' = [op |-> "stop_instance", slave |-> i,
                outcome |-> IF t.raised THEN "error" ELSE "success",
                session |-> g.ret, calls |-> g.calls \o t.calls,
                log |-> <<"Stopping">> \o t.log]

\* faulty variant of stop_instance: the test of job_id is missing
stop_instance_unguarded(i, connect, control) ==
    /\ Exists(i)
    /\ _stop_instance(i, connect, control)
    /\ UNCHANGED <<job_template, next_job, submitted>>

\* stop_instance: succeed at once when no job is held, else log and
\* deferToThread(self._stop_instance)
stop_instance(i, connect, control) ==
    /\ Exists(i)
    /\ IF job_id[i] = None
       THEN /\ last' = [op |-> "stop_instance", slave |-> i, outcome |-> "success",
                        session |-> None, calls |-> <<>>, log |-> <<>>]
            /\ UNCHANGED <<session_vars, job_id, terminate_issued, resolved>>
       ELSE _stop_instance(i, connect, control)
    /\ UNCHANGED <<job_template, next_job, submitted>>

-----------------------------------------------------------------------------
(* htcondor.py: _setup_htcondor_template and _htcondor_env_value.          *)
(*                                                                         *)
(* The text is kept as the sequence of its chunks, each chunk being what   *)
(* one `native_spec += ... + "\n"` statement appends, without the newline. *)
(* Strings that are processed character by character (the password) are   *)
(* sequences of one-character strings.  The call on line 105 is taken to   *)
(* reach the function defined on lines 148-159.  A dict is iterated in an  *)
(* order the language leaves open: the model starts the iteration at any   *)
(* key and goes round in the order of the source listing.                  *)

\* a keyword that the caller did not pass
Absent == [t |-> "absent"]

\* str(v)
str(v) ==
    CASE v.t = "NoneType" -> "None"
      [] v.t = "int"      -> ToString(v.v)
      [] OTHER            -> v.v

\* the concatenation of a sequence of strings
RECURSIVE Join(_)
Join(cs) == IF cs = <<>> THEN "" ELSE Head(cs) \o Join(Tail(cs))

\* value.replace(old, new) on a sequence of characters, old one character
RECURSIVE replace(_, _, _)
replace(value, old, new) ==
    IF value = <<>> THEN <<>>
    ELSE (IF Head(value) = old THEN new ELSE <<Head(value)>>)
             \o replace(Tail(value), old, new)

\* faulty variant of _htcondor_env_value: the single quotes are not doubled
_htcondor_env_value_keeps_single(value) ==
    LET v1 == replace(value, "\"", <<"\"", "\"">>)
    IN  <<"'">> \o v1 \o <<"'">>

\* _htcondor_env_value: double the double quotes, then the single quotes,
\* and enclose in single quotes
_htcondor_env_value(value) ==
    LET v1 == replace(value, "\"", <<"\"", "\"">>)
        v2 == replace(v1, "'", <<"'", "'">>)
    IN  <<"'">> \o v2 \o <<"'">>

\* the keys of submit_description_rw and submit_description_ro as listed
RwKeys == <<"accounting_group", "accounting_group_user", "request_buildslave",
            "request_cpu", "request_disk", "request_memory">>

RoKeys == <<"arguments", "+BuildslaveName", "+JobDescription", "environment",
            "+BuildslaveJob", "+JobMaxVacateTime", "getenv", "kill_sig",
            "want_graceful_removal", "transfer_executable", "periodic_remove">>

Range(f) == {f[k] : k \in DOMAIN f}

\* lines 90-98
submit_description_rw ==
    [k \in Range(RwKeys) |->
        CASE k = "request_cpu"    -> PyStr("1")
          [] k = "request_disk"   -> PyStr("2097152")
          [] k = "request_memory" -> PyStr("2048")
          [] OTHER                -> None]

\* lines 116-119: the periodic_remove expression
periodic_remove_unclamped(timeout) ==
    "(JobStatus == 5 || (JobStatus == 1 &&" \o "CurrentTime - QDate > "
        \o ToString(timeout) \o "))"

periodic_remove(timeout) ==
    "(JobStatus == 5 || (JobStatus == 1 &&" \o "CurrentTime - QDate > "
        \o ToString(IF timeout < 120 THEN 120 ELSE timeout) \o "))"

\* lines 100-120
submit_description_ro(name, pw, timeout) ==
    [k \in Range(RoKeys) |->
        CASE k \in {"arguments", "+BuildslaveName", "+JobDescription"} -> name
          [] k = "environment" -> "SLAVE_PASSWORD=" \o Join(_htcondor_env_value(pw))
          [] k = "+JobMaxVacateTime" -> "60"
          [] k = "kill_sig" -> "SIGHUP"
          [] k = "periodic_remove" -> periodic_remove(timeout)
          [] OTHER -> "TRUE"]

\* lines 122-125: the keyword arguments that name an overridable directive
\* replace its value by their str()
update_rw(rw, kw) ==
    [k \in DOMAIN rw |->
        IF k \in DOMAIN kw /\ kw[k] # Absent THEN PyStr(str(kw[k])) ELSE rw[k]]

\* a sequence taken round from position first
Rotate(seq, first) ==
    [k \in 1..Len(seq) |-> seq[((first + k - 2) % Len(seq)) + 1]]

\* lines 128-131: one chunk for every overridable directive that is not None
rw_chunks(rw, first) ==
    LET keys == SelectSeq(Rotate(RwKeys, first), LAMBDA k : rw[k] # None)
    IN  [j \in 1..Len(keys) |-> keys[j] \o "=" \o rw[keys[j]].v]

\* faulty variant of extra_chunks: an empty line when the keyword is absent
extra_chunks_blank_when_absent(kw) ==
    IF kw["extra_submit_description"] = Absent
    THEN <<"">>
    ELSE <<kw["extra_submit_description"].v>>

\* lines 133-139: the extra directives, when the keyword was passed
extra_chunks(kw) ==
    IF kw["extra_submit_description"] = Absent
    THEN <<>>
    ELSE <<kw["extra_submit_description"].v>>

\* lines 141-144: one chunk for every fixed directive
ro_chunks(ro, first) ==
    LET keys == Rotate(RoKeys, first)
    IN  [j \in 1..Len(keys) |-> keys[j] \o "=" \o ro[keys[j]]]

\* faulty variant of _setup_htcondor_template: the extra directives are
\* appended after the fixed directives
_setup_htcondor_template_extra_last(name, pw, timeout, kw, rwf, rof) ==
    LET rw == update_rw(submit_description_rw, kw)
        ro == submit_description_ro(name, pw, timeout)
    IN  IF kw["extra_submit_description"] # Absent
           /\ kw["extra_submit_description"].t # "str"
        THEN [raised |-> TRUE, text |-> <<>>]
        ELSE [raised |-> FALSE,
              text |-> rw_chunks(rw, rwf) \o ro_chunks(ro, rof) \o extra_chunks(kw)]

\* _setup_htcondor_template: the returned text; the concatenation on line 139
\* raises TypeError when the extra directives are not a string
_setup_htcondor_template(name, pw, timeout, kw, rwf, rof) ==
    LET rw == update_rw(submit_description_rw, kw)
        ro == submit_description_ro(name, pw, timeout)
    IN  IF kw["extra_submit_description"] # Absent
           /\ kw["extra_submit_description"].t # "str"
        THEN [raised |-> TRUE, text |-> <<>>]
        ELSE [raised |-> FALSE,
              text |-> rw_chunks(rw, rwf) \o extra_chunks(kw) \o ro_chunks(ro, rof)]

\* the inputs of the render
KwargKeys == {"accounting_group", "request_cpu", "getenv", "extra_submit_description"}

KwargValues(k) ==
    CASE k = "accounting_group" -> {Absent, None, PyStr("builders")}
      [] k = "request_cpu"      -> {Absent, PyInt(4)}
      [] k = "getenv"           -> {Absent, PyStr("FALSE")}
      [] OTHER -> {Absent, None, PyStr("+Nightly=TRUE"), PyStr("getenv=FALSE")}

Kwargs == {kw \in [KwargKeys -> UNION {KwargValues(k) : k \in KwargKeys}] :
              \A k \in KwargKeys : kw[k] \in KwargValues(k)}

NoKwargs == [k \in KwargKeys |-> Absent]

Passwords == {<<"p", "w">>, <<"O", "'", "B", "\"", "h", "i", "\"">>}

Timeouts == {30, 119, 120, 121, 500}

-----------------------------------------------------------------------------
(* gridengine.py: the option setters and the text _start_instance builds.  *)
(*                                                                         *)
(* The import on line 21 names buildbot.buildslave.drmaa; it is taken to   *)
(* reach DRMAALatentBuildSlave of drmaabot.py.  The text is kept as the    *)
(* sequence of the pieces the `+` and `+=` of lines 82-93 put together.    *)
(* job_options maps every name of grid_option_dictionary to its value, or  *)
(* to Absent when the dict does not hold the key.                          *)

\* lines 39-44
grid_option_dictionary ==
    [k \in {"queue", "name", "shell", "env"} |->
        CASE k = "queue" -> "-q"
          [] k = "name"  -> "-N"
          [] k = "shell" -> "-S"
          [] OTHER       -> "-v"]

\* the keys of grid_option_dictionary as listed
OptionNames == <<"queue", "name", "shell", "env">>

\* lines 59-63
DefaultJobOptions ==
    [k \in DOMAIN grid_option_dictionary |->
        CASE k = "queue" -> PyStr("all.q")
          [] k = "name"  -> PyStr("BuildSlave")
          [] OTHER       -> Absent]

\* lines 65-68
DefaultJobResources == <<[name |-> "arch", value |-> PyStr("*")]>>

\* lines 82-85: the pieces appended for the options keys, in that order
RECURSIVE option_string(_, _)
option_string(keys, opts) ==
    IF keys = <<>> THEN <<>>
    ELSE <<grid_option_dictionary[Head(keys)], " ", opts[Head(keys)].v, " ">>
             \o option_string(Tail(keys), opts)

\* faulty variant of resource_specification_string: the comma is appended
\* before every resource, the first one included
RECURSIVE resource_specification_string_comma_first(_)
resource_specification_string_comma_first(res) ==
    IF res = <<>> THEN <<>>
    ELSE resource_specification_string_comma_first(SubSeq(res, 1, Len(res) - 1))
            \o <<",">>
            \o <<res[Len(res)].name \o "=" \o res[Len(res)].value.v>>

\* lines 87-91: name=value for every resource, a comma before each but the first
RECURSIVE resource_specification_string(_)
resource_specification_string(res) ==
    IF res = <<>> THEN <<>>
    ELSE LET before == resource_specification_string(SubSeq(res, 1, Len(res) - 1))
         IN  before
                \o (IF before # <<>> THEN <<",">> ELSE <<>>)
                \o <<res[Len(res)].name \o "=" \o res[Len(res)].value.v>>

\* lines 81-93: the text assigned to nativeSpecification; the concatenation
\* on line 85 raises TypeError when an option value is not a string
native_specification_string(opts, res, first) ==
    LET keys == SelectSeq(Rotate(OptionNames, first), LAMBDA k : opts[k] # Absent)
        resource_string == resource_specification_string(res)
    IN  IF \E k \in Range(keys) : opts[k].t # "str"
        THEN [raised |-> TRUE, text |-> <<>>]
        ELSE [raised |-> FALSE,
              text |-> option_string(keys, opts)
                          \o (IF resource_string # <<>>
                              THEN <<"-l ">> \o resource_string
                              ELSE <<>>)]

\* the inputs of the subclasses
SetterNames == {"queue"}

SetterValues(name) == {PyStr("fast.q"), PyStr(""), None}

ResourceChoices ==
    {<<>>,
     DefaultJobResources,
     <<[name |-> "arch", value |-> PyStr("*")],
       [name |-> "mem_free", value |-> PyStr("4G")]>>}

VariantKwargs == {NoKwargs, [NoKwargs EXCEPT !["accounting_group"] = PyStr("builders")]}

VariantTimeouts == {30, 500}

\* slave_start_cmd / buildslave_setup_command values of the subclasses
VariantStartCommands == {"run_buildslave.py", "start_slave.sh"}

-----------------------------------------------------------------------------
(* Initial values *)

NoCall == [op |-> "none", slave |-> 0, outcome |-> "none",
           session |-> None, calls |-> <<>>, log |-> <<>>]

\* a contact string set on the class before the first instance is built
SuppliedContacts == {None, PyStr("prior-session")}

SessionInit ==
    /\ drmaa \in BOOLEAN
    /\ _drmaa_session = None
    /\ class_contact \in SuppliedContacts
    /\ inst_contact = [i \in Slaves |-> None]
    /\ connections = 0
    /\ refused_connects = 0

LifeInit ==
    /\ job_id = [i \in Slaves |-> None]
    /\ job_template = [i \in Slaves |-> None]
    /\ next_job = 0
    /\ submitted = [i \in Slaves |-> {}]
    /\ terminate_issued = {}
    /\ resolved = {}
    /\ last = NoCall

ThreadInit ==
    /\ pc = [t \in Slaves |-> "idle"]
    /\ session = [t \in Slaves |-> None]
    /\ returned = [t \in Slaves |-> None]

RenderIdle ==
    /\ slavename = "slave1"
    /\ password = <<>>
    /\ missing_timeout = 1200
    /\ kwargs = NoKwargs
    /\ rw_first = 1
    /\ ro_first = 1
    /\ native_spec = <<>>
    /\ rendered = "no"

EscapeIdle == env_value = <<>>

\* no instance of a subclass: the class attributes job_options and
\* job_resources are None, a blank template has no nativeSpecification
VariantIdle ==
    /\ variant = [i \in Slaves |-> "base"]
    /\ job_options = [i \in Slaves |-> None]
    /\ job_resources = [i \in Slaves |-> None]
    /\ nativeSpecification = [i \in Slaves |-> <<>>]

-----------------------------------------------------------------------------
(* Spec: lifecycle calls, one at a time *)

Init == SessionInit /\ LifeInit /\ ThreadInit /\ RenderIdle /\ EscapeIdle /\ VariantIdle

\* drmaa.Session(...) is only called, and so only answers, while drmaa is
\* importable and no session exists; it raises at most MaxRefusals times
ConnectAnswers ==
    IF Truthy(_drmaa_session) \/ ~drmaa THEN {"ok"}
    ELSE IF refused_connects < MaxRefusals THEN ConnectOutcomes
    ELSE {"ok"}

Construct ==
    \E i \in Slaves, cmd \in StartCommands, connect \in ConnectAnswers :
        /\ UNCHANGED <<thread_vars, render_vars, escape_vars, variant_vars>>
        /\ __init__(i, cmd, connect)

Start ==
    \E i \in Slaves, connect \in ConnectAnswers, run \in RunJobOutcomes :
        /\ UNCHANGED <<thread_vars, render_vars, escape_vars, variant_vars>>
        /\ start_instance(i, connect, run)

Stop ==
    \E i \in Slaves, connect \in ConnectAnswers, control \in ControlOutcomes :
        /\ UNCHANGED <<thread_vars, render_vars, escape_vars, variant_vars>>
        /\ stop_instance(i, connect, control)

Next == Construct \/ Start \/ Stop

Spec == Init /\ [][Next]_vars

-----------------------------------------------------------------------------
(* Properties of the lifecycle (checked under Spec) *)

\* the calls named c that the most recent lifecycle call made to the scheduler
CallsOf(rec, c) == {k \in 1..Len(rec.calls) : rec.calls[k].call = c}

\* C1: after a successful start the stored job identifier is not None, and
\* after a stop on a Running controller (one that issued the control call),
\* whatever the scheduler answered, the stored identifier is None (Idle).
C1_IdentifierLifecycle ==
    /\ (last.op = "start_instance" /\ last.outcome = "success")
          => job_id[last.slave] # None
    /\ (last.op = "stop_instance" /\ CallsOf(last, "control") # {})
          => job_id[last.slave] = None

\* C2: a stop_instance call made while job_id is None (also when the instance
\* was never started) returns success, does not obtain the session, makes no
\* call to the scheduler and leaves job_id None.
C2_IdempotentStop ==
    [][\A i \in Slaves :
          (last'.op = "stop_instance" /\ last'.slave = i /\ job_id[i] = None)
          => /\ last'.outcome = "success"
             /\ last'.session = None
             /\ last'.calls = <<>>
             /\ job_id'[i] = None
             /\ UNCHANGED <<session_vars, terminate_issued, resolved>>]_vars

C2_Witness ==
    /\ last.op = "stop_instance"
    /\ last.outcome = "success"
    /\ last.calls = <<>>
    /\ submitted[last.slave] = {}
    /\ \E j \in Slaves : j # last.slave /\ job_id[j] # None

\* C3: a stop_instance call that directly follows a completed stop_instance
\* call on the same instance, whatever that first call's outcome, returns
\* success without contacting the scheduler.
C3_SecondStopSucceeds ==
    [][(last.op = "stop_instance" /\ last'.op = "stop_instance"
            /\ last'.slave = last.slave)
          => (last'.outcome = "success" /\ last'.calls = <<>>)]_vars

\* C4: a start_instance call made with job_id None whose submission fails
\* surfaces the error, records no identifier and leaves the instance as it
\* was, so that a retry starts from the same state.
C4_FailedStartStaysIdle ==
    [][\A i \in Slaves :
          (last'.op = "start_instance" /\ last'.slave = i /\ job_id[i] = None
              /\ \E k \in CallsOf(last', "runJob") : last'.calls[k].answer = "error")
          => /\ last'.outcome = "error"
             /\ job_id'[i] = None
             /\ UNCHANGED <<job_template, next_job, submitted>>]_vars

C4_Witness ==
    /\ last.op = "start_instance"
    /\ last.outcome = "error"
    /\ \E k \in CallsOf(last, "runJob") : last.calls[k].answer = "error"
    /\ job_id[last.slave] = None
    /\ next_job > 0

\* C5: in a stop, the scheduler's answer that the job is no longer valid is
\* logged and the stop completes successfully; the stop surfaces an error
\* exactly when the control call failed for another reason.
C5_InvalidJobBenign ==
    (last.op = "stop_instance") =>
        \A k \in CallsOf(last, "control") :
            /\ last.calls[k].answer = "invalid"
                  => /\ last.outcome = "success"
                     /\ last.log = <<"Stopping", "no longer valid">>
            /\ last.outcome = "error" <=> last.calls[k].answer = "error"

C5_Witness ==
    /\ last.op = "stop_instance"
    /\ \E k \in CallsOf(last, "control") : last.calls[k].answer = "invalid"
    /\ last.outcome = "success"

\* C7: a job is submitted for an instance only while that instance holds no
\* job identifier, so an instance never has more than one submitted job for
\* which it has issued no termination.
C7_StartOnlyFromIdle ==
    [][\A i \in Slaves :
          (submitted'[i] # submitted[i])
          => /\ job_id[i] = None
             /\ Cardinality(submitted'[i] \ terminate_issued') <= 1]_vars

\* C8: once a stop has resolved the termination of an identifier
\* (acknowledged or reported invalid), the stored identifier is None until
\* the next successful start, no stored identifier is a resolved one, and no
\* later control call carries a resolved identifier.
C8_IdentifierNeverReused ==
    [][\A i \in Slaves :
          /\ (resolved' # resolved /\ last'.slave = i) => job_id'[i] = None
          /\ (job_id[i] = None /\ job_id'[i] # None)
                => (last'.op = "start_instance" /\ last'.slave = i
                        /\ last'.outcome = "success")
          /\ job_id'[i] \notin resolved'
          /\ (last'.op = "stop_instance" /\ last'.slave = i)
                => \A k \in CallsOf(last', "control") :
                       last'.calls[k].arg \notin resolved]_vars

C8_Witness ==
    \E i \in Slaves :
        /\ submitted[i] \cap resolved # {}
        /\ job_id[i] # None
        /\ last.op = "stop_instance" /\ last.slave = i
        /\ CallsOf(last, "control") # {}

\* C15: a constructor call made while drmaa is None, or whose
\* drmaa.Session(...) call raises, ends in an error; after a constructor
\* call that ended in an error the instance has no job template, the class
\* holds no session, the instance holds no contact string, and the call made
\* at most one drmaa.Session(...) call and no createJobTemplate call.
C15_ConstructFailsFatally ==
    last.op = "__init__" =>
        /\ (~drmaa \/ \E k \in CallsOf(last, "Session") : last.calls[k].answer = "error")
              => last.outcome = "error"
        /\ last.outcome = "error" =>
              /\ ~Exists(last.slave)
              /\ _drmaa_session = None
              /\ inst_contact[last.slave] = None
              /\ Cardinality(CallsOf(last, "Session")) <= 1
              /\ CallsOf(last, "createJobTemplate") = {}

C15_Witness ==
    /\ last.op = "__init__" /\ last.outcome = "error"
    /\ drmaa
    /\ \E k \in CallsOf(last, "Session") : last.calls[k].answer = "error"
    /\ refused_connects = 1

\* the calls of a lifecycle call that are made on a session handle
OnHandle(rec) ==
    {k \in 1..Len(rec.calls) :
        rec.calls[k].call \in {"createJobTemplate", "runJob", "control"}}

\* C16 as stated: over all lifecycle calls of all instances, drmaa.Session(...)
\* is called at most once, the handle once stored is never replaced, and
\* every createJobTemplate, runJob and control call is made on that handle.
C16_OneConnectCall ==
    [][/\ connections' + refused_connects' <= 1
       /\ Truthy(_drmaa_session) => _drmaa_session' = _drmaa_session
       /\ OnHandle(last') # {} =>
             (Truthy(_drmaa_session') /\ last'.session = _drmaa_session')]_vars

\* C16 amended: over all lifecycle calls of all instances, at most one
\* drmaa.Session(...) call returns a handle (a call that raised may be
\* followed by another one, made by a later constructor), the handle once
\* stored is never replaced, and every createJobTemplate, runJob and control
\* call is made on that handle.
C16_OneSessionHandle ==
    [][/\ connections' <= 1
       /\ Truthy(_drmaa_session) => _drmaa_session' = _drmaa_session
       /\ OnHandle(last') # {} =>
             (Truthy(_drmaa_session') /\ last'.session = _drmaa_session')]_vars

C16_Witness ==
    /\ connections = 1 /\ refused_connects = 1
    /\ \A i \in Slaves : Exists(i)
    /\ last.op = "stop_instance" /\ last.slave = NumSlaves
    /\ CallsOf(last, "control") # {}
    /\ last.session = _drmaa_session

\* C20: a start_instance or stop_instance call of one instance, whatever its
\* outcome, leaves job_id and job_template of every other instance as they
\* were, and a control call it makes carries an identifier that runJob
\* returned to that same instance.
C20_InstancesIndependent ==
    [][last'.op \in {"start_instance", "stop_instance"} =>
          /\ \A j \in Slaves \ {last'.slave} :
                /\ job_id'[j] = job_id[j]
                /\ job_template'[j] = job_template[j]
          /\ \A k \in CallsOf(last', "control") :
                last'.calls[k].arg \in submitted[last'.slave]]_vars

C20_Witness ==
    \E i, j \in Slaves :
        /\ i # j
        /\ last.op = "stop_instance" /\ last.slave = i
        /\ CallsOf(last, "control") # {}
        /\ job_id[i] = None
        /\ job_id[j] # None /\ job_id[j] \in submitted[j]

\* C22: while the class holds a session, every instance that was built (and
\* so obtained the session) reads a drmaa_session_contact that is not None
\* and equals the contact of the session; a session made while a contact
\* string was supplied is attached to exactly that string.
C22_ContactRecorded ==
    Truthy(_drmaa_session) =>
        /\ class_contact # None => _drmaa_session.contact = class_contact
        /\ \A i \in Slaves :
              Exists(i) =>
                 /\ drmaa_session_contact(i) # None
                 /\ drmaa_session_contact(i) = _drmaa_session.contact

-----------------------------------------------------------------------------
(* SpecThreads: _get_persistent_drmaa_session line by line.  Thread t runs *)
(* the getter on instance t (from its constructor, through                 *)
(* _get_blank_job_template) while no session exists yet; the threads       *)
(* interleave between lines, and the method takes no lock.                 *)

\* the call is entered
getter_call(t) ==
    /\ pc[t] = "idle"
    /\ pc' = [pc EXCEPT ![t] = "102"]
    /\ UNCHANGED <<session_vars, session, returned>>

\* line 102: if not DRMAALatentBuildSlave._drmaa_session
getter_line_102(t) ==
    /\ pc[t] = "102"
    /\ pc' = [pc EXCEPT ![t] = IF ~Truthy(_drmaa_session) THEN "104" ELSE "111"]
    /\ UNCHANGED <<session_vars, session, returned>>

\* lines 103-107: session = drmaa.Session(contact) or drmaa.Session()
getter_line_104(t, connect) ==
    /\ pc[t] = "104"
    /\ IF ~drmaa
       THEN /\ pc' = [pc EXCEPT ![t] = "raised"]
            /\ UNCHANGED <<session, connections, refused_connects>>
       ELSE IF connect = "error"
       THEN /\ refused_connects < MaxRefusals
            /\ refused_connects' = refused_connects + 1
            /\ pc' = [pc EXCEPT ![t] = "raised"]
            /\ UNCHANGED <<session, connections>>
       ELSE IF Truthy(drmaa_session_contact(t))
       THEN /\ session' = [session EXCEPT ![t] =
                               Session(connections + 1, drmaa_session_contact(t))]
            /\ connections' = connections + 1
            /\ pc' = [pc EXCEPT ![t] = "109"]
            /\ UNCHANGED refused_connects
       ELSE /\ session' = [session EXCEPT ![t] =
                               Session(connections + 1, FreshContact(connections + 1))]
            /\ connections' = connections + 1
            /\ pc' = [pc EXCEPT ![t] = "108"]
            /\ UNCHANGED refused_connects
    /\ UNCHANGED <<drmaa, _drmaa_session, class_contact, inst_contact, returned>>

\* line 108: self.drmaa_session_contact = session.contact
getter_line_108(t) ==
    /\ pc[t] = "108"
    /\ inst_contact' = [inst_contact EXCEPT ![t] = session[t].contact]
    /\ pc' = [pc EXCEPT ![t] = "109"]
    /\ UNCHANGED <<drmaa, _drmaa_session, class_contact, connections, refused_connects,
                    session, returned>>

\* line 109: DRMAALatentBuildSlave._drmaa_session = session
getter_line_109(t) ==
    /\ pc[t] = "109"
    /\ _drmaa_session' = session[t]
    /\ pc' = [pc EXCEPT ![t] = "111"]
    /\ UNCHANGED <<drmaa, class_contact, inst_contact, connections, refused_connects,
                    session, returned>>

\* line 111: return DRMAALatentBuildSlave._drmaa_session
getter_line_111(t) ==
    /\ pc[t] = "111"
    /\ returned' = [returned EXCEPT ![t] = _drmaa_session]
    /\ pc' = [pc EXCEPT ![t] = "done"]
    /\ UNCHANGED <<session_vars, session>>

ThreadCall == \E t \in Slaves : getter_call(t) /\ UNCHANGED <<life_vars, render_vars, escape_vars, variant_vars>>
Thread102  == \E t \in Slaves : getter_line_102(t) /\ UNCHANGED <<life_vars, render_vars, escape_vars, variant_vars>>
Thread104  ==
    \E t \in Slaves, connect \in ConnectOutcomes :
        getter_line_104(t, connect) /\ UNCHANGED <<life_vars, render_vars, escape_vars, variant_vars>>
Thread108  == \E t \in Slaves : getter_line_108(t) /\ UNCHANGED <<life_vars, render_vars, escape_vars, variant_vars>>
Thread109  == \E t \in Slaves : getter_line_109(t) /\ UNCHANGED <<life_vars, render_vars, escape_vars, variant_vars>>
Thread111  == \E t \in Slaves : getter_line_111(t) /\ UNCHANGED <<life_vars, render_vars, escape_vars, variant_vars>>

NextThreads ==
    ThreadCall \/ Thread102 \/ Thread104 \/ Thread108 \/ Thread109 \/ Thread111

SpecThreads == Init /\ [][NextThreads]_vars

\* C6: when several callers run the getter at once before any session
\* exists, at most one connection is made and all callers that return
\* receive the same handle.
C6_SingleSession ==
    /\ connections <= 1
    /\ \A t, u \in Slaves :
          (pc[t] = "done" /\ pc[u] = "done") => returned[t] = returned[u]

-----------------------------------------------------------------------------
(* SpecRender: _setup_htcondor_template on bounded inputs *)

RenderInit ==
    /\ slavename \in {"slave1"}
    /\ password \in Passwords
    /\ missing_timeout \in Timeouts
    /\ kwargs \in Kwargs
    /\ rw_first \in 1..Len(RwKeys)
    /\ ro_first \in 1..Len(RoKeys)
    /\ native_spec = <<>>
    /\ rendered = "no"

InitRender ==
    /\ SessionInit /\ class_contact = None /\ drmaa
    /\ LifeInit /\ ThreadInit /\ RenderInit /\ EscapeIdle /\ VariantIdle

Render ==
    /\ rendered = "no"
    /\ LET r == _setup_htcondor_template(slavename, password, missing_timeout,
                                         kwargs, rw_first, ro_first)
       IN  /\ rendered' = IF r.raised THEN "raised" ELSE "returned"
           /\ native_spec' = r.text
    /\ UNCHANGED <<slavename, password, missing_timeout, kwargs, rw_first, ro_first>>
    /\ UNCHANGED <<session_vars, life_vars, thread_vars, escape_vars, variant_vars>>

NextRender == Render

SpecRender == InitRender /\ [][NextRender]_vars

\* the last n chunks of a text
Suffix(text, n) == SubSeq(text, Len(text) - n + 1, Len(text))

\* the fixed directives with the values the source gives them
FixedDirectives ==
    {"arguments=" \o slavename,
     "+BuildslaveName=" \o slavename,
     "+JobDescription=" \o slavename,
     "environment=SLAVE_PASSWORD=" \o Join(_htcondor_env_value(password)),
     "+BuildslaveJob=TRUE",
     "+JobMaxVacateTime=60",
     "getenv=TRUE",
     "kill_sig=SIGHUP",
     "want_graceful_removal=TRUE",
     "transfer_executable=TRUE",
     "periodic_remove=" \o periodic_remove(missing_timeout)}

RemoveAfter(digits) ==
    "periodic_remove=(JobStatus == 5 || (JobStatus == 1 &&CurrentTime - QDate > "
        \o digits \o "))"

DirectiveLines(key) ==
    {key \o "=" \o str(v) :
        v \in (IF key \in KwargKeys THEN KwargValues(key) \ {Absent} ELSE {})
                 \cup {submit_description_rw[key]}}

\* the environment line that carries the secret
EnvironmentLine ==
    "environment=SLAVE_PASSWORD=" \o Join(_htcondor_env_value(password))

\* C12: the text rendered for missing_timeout 30 with no keyword argument
\* contains request_cpu=1, contains the periodic_remove expression with 120,
\* contains no accounting_group line, and its last line is the environment
\* line that carries the secret.
C12_DefaultScenario ==
    (rendered = "returned" /\ missing_timeout = 30 /\ kwargs = NoKwargs) =>
        /\ "request_cpu=1" \in Range(native_spec)
        /\ RemoveAfter("120") \in Range(native_spec)
        /\ Range(native_spec) \cap DirectiveLines("accounting_group") = {}
        /\ native_spec[Len(native_spec)] = EnvironmentLine

\* the value of an overridable directive after the caller's keyword
\* arguments: the supplied value when the keyword was passed, else the default
EffectiveValue(key) ==
    IF key \in KwargKeys /\ kwargs[key] # Absent
    THEN kwargs[key]
    ELSE submit_description_rw[key]

\* C13: an overridable directive has a key=value line in the returned text
\* if and only if its effective value is not None: a directive without
\* default that is not supplied, or supplied as None, has no line, and
\* request_cpu, request_disk and request_memory carry their defaults when
\* not supplied.
C13_NullDirectivesOmitted ==
    rendered = "returned" =>
        \A k \in Range(RwKeys) :
            /\ EffectiveValue(k) = None
                  => Range(native_spec) \cap DirectiveLines(k) = {}
            /\ EffectiveValue(k) # None
                  => (k \o "=" \o str(EffectiveValue(k))) \in Range(native_spec)

\* the number of overridable directives that have a line in the text
RwLineCount ==
    Cardinality({k \in Range(RwKeys) :
                    update_rw(submit_description_rw, kwargs)[k] # None})

\* every line an overridable directive can take
RwLines == UNION {DirectiveLines(k) : k \in Range(RwKeys)}

-----------------------------------------------------------------------------
(* SpecEscape: _htcondor_env_value on every secret of bounded length *)

\* the characters of the secrets: both quotes and an ordinary character
SecretChars == {"'", "\"", "a"}

\* the secrets of at most MaxSecretLen characters
Secrets == UNION {[1..n -> SecretChars] : n \in 0..MaxSecretLen}

InitEscape ==
    /\ SessionInit /\ class_contact = None /\ drmaa
    /\ LifeInit /\ ThreadInit
    /\ slavename = "slave1"
    /\ password \in Secrets
    /\ missing_timeout = 1200
    /\ kwargs = NoKwargs
    /\ rw_first = 1
    /\ ro_first = 1
    /\ native_spec = <<>>
    /\ rendered = "no"
    /\ EscapeIdle /\ VariantIdle

Escape ==
    /\ env_value = <<>>
    /\ env_value' = _htcondor_env_value(password)
    /\ UNCHANGED <<session_vars, life_vars, thread_vars, render_vars, variant_vars>>

NextEscape == Escape

SpecEscape == InitEscape /\ [][NextEscape]_vars

\* every quote character written twice, the other characters once
RECURSIVE QuotesDoubled(_)
QuotesDoubled(cs) ==
    IF cs = <<>> THEN <<>>
    ELSE (IF Head(cs) \in {"'", "\""} THEN <<Head(cs), Head(cs)>> ELSE <<Head(cs)>>)
             \o QuotesDoubled(Tail(cs))

\* a doubled quote read as one quote, from left to right
RECURSIVE QuotesHalved(_)
QuotesHalved(cs) ==
    IF cs = <<>> THEN <<>>
    ELSE IF Len(cs) >= 2 /\ cs[1] \in {"'", "\""} /\ cs[2] = cs[1]
         THEN <<cs[1]>> \o QuotesHalved(SubSeq(cs, 3, Len(cs)))
         ELSE <<cs[1]>> \o QuotesHalved(Tail(cs))

\* the reading of a token by the dialect: the outer single quotes are
\* stripped, doubled quotes are halved
Unescape(token) == QuotesHalved(SubSeq(token, 2, Len(token) - 1))

\* C11: for every secret over single quotes, double quotes and ordinary
\* characters the returned token is the secret with every double quote and
\* every single quote doubled, enclosed in single quotes, and reading the
\* token back (outer quotes stripped, doubled quotes halved) gives the secret.
C11_EscapeRoundTrip ==
    env_value # <<>> =>
        /\ env_value = <<"'">> \o QuotesDoubled(password) \o <<"'">>
        /\ Head(env_value) = "'" /\ env_value[Len(env_value)] = "'"
        /\ Unescape(env_value) = password

C11_Witness ==
    /\ env_value # <<>>
    /\ Len(password) = 3
    /\ "'" \in Range(password) /\ "\"" \in Range(password) /\ "a" \in Range(password)
    /\ Len(env_value) = 7

-----------------------------------------------------------------------------
(* SpecVariants: one instance of HTCondorLatentBuildSlave or of            *)
(* GridEngineLatentBuildSlave.  The call on line 80 of htcondor.py passes  *)
(* self twice and raises TypeError as written; it is taken to bind as a   *)
(* call of the method with the keyword arguments only, the reading under   *)
(* which an HTCondor instance exists at all.  slavename, password,         *)
(* missing_timeout and kwargs are the attributes and keyword arguments of  *)
(* that instance.                                                          *)

VariantSlaves == {1}

InitVariants ==
    /\ SessionInit /\ class_contact = None /\ drmaa
    /\ LifeInit /\ ThreadInit /\ RenderIdle /\ EscapeIdle /\ VariantIdle

\* HTCondorLatentBuildSlave.__init__ (lines 78-80): the base constructor,
\* then the text of _setup_htcondor_template as nativeSpecification
HTCondor__init__(i, slave_start_cmd, connect, pw, timeout, kw) ==
    /\ __init__(i, slave_start_cmd, connect)
    /\ IF last'.outcome = "success"
       THEN /\ variant' = [variant EXCEPT ![i] = "htcondor"]
            /\ password' = pw
            /\ missing_timeout' = timeout
            /\ kwargs' = kw
            /\ nativeSpecification' = [nativeSpecification EXCEPT ![i] =
                   _setup_htcondor_template(slavename, pw, timeout, kw,
                                            rw_first, ro_first).text]
       ELSE UNCHANGED <<variant, password, missing_timeout, kwargs, nativeSpecification>>
    /\ UNCHANGED <<job_options, job_resources, slavename, rw_first, ro_first,
                   native_spec, rendered>>

\* HTCondorLatentBuildSlave._start_instance (lines 82-85): the base method
HTCondor_start_instance(i, connect, run) ==
    /\ UNCHANGED nativeSpecification
    /\ _start_instance(i, connect, run)

\* GridEngineLatentBuildSlave.__init__ (lines 49-76): the default options
\* and resources, the base constructor, the setters and getters
GridEngine__init__(i, buildslave_setup_command, connect) ==
    /\ __init__(i, buildslave_setup_command, connect)
    /\ IF last'.outcome = "success"
       THEN /\ variant' = [variant EXCEPT ![i] = "gridengine"]
            /\ job_options' = [job_options EXCEPT ![i] = DefaultJobOptions]
            /\ job_resources' = [job_resources EXCEPT ![i] = DefaultJobResources]
       ELSE UNCHANGED <<variant, job_options, job_resources>>
    /\ UNCHANGED nativeSpecification

\* OptionStub.setter, reached as set_job_<option_name>
setter(i, option_name, value) ==
    /\ job_options' = [job_options EXCEPT ![i][option_name] = value]
    /\ last' = [op |-> "set_job_" \o option_name, slave |-> i, outcome |-> "success",
                session |-> None, calls |-> <<>>, log |-> <<>>]

\* GridEngineLatentBuildSlave._start_instance (lines 78-95): build the text
\* from job_options and job_resources, assign it, then the base method; a
\* TypeError of line 85 leaves the method before the assignment
GridEngine_start_instance(i, connect, run, first) ==
    LET r == native_specification_string(job_options[i], job_resources[i], first) IN
    IF r.raised
    THEN /\ last' = [op |-> "start_instance", slave |-> i, outcome |-> "error",
                     session |-> None, calls |-> <<>>, log |-> <<>>]
         /\ UNCHANGED <<session_vars, job_id, job_template, next_job, submitted,
                        terminate_issued, resolved, nativeSpecification>>
    ELSE /\ nativeSpecification' = [nativeSpecification EXCEPT ![i] = r.text]
         /\ _start_instance(i, connect, run)

ConstructHTCondor ==
    \E i \in VariantSlaves, cmd \in VariantStartCommands, connect \in ConnectAnswers,
       pw \in {<<"p", "w">>}, timeout \in VariantTimeouts, kw \in VariantKwargs :
        /\ \A j \in Slaves : ~Exists(j)
        /\ HTCondor__init__(i, cmd, connect, pw, timeout, kw)
        /\ UNCHANGED <<thread_vars, escape_vars>>

ConstructGridEngine ==
    \E i \in VariantSlaves, cmd \in VariantStartCommands, connect \in ConnectAnswers :
        /\ \A j \in Slaves : ~Exists(j)
        /\ GridEngine__init__(i, cmd, connect)
        /\ UNCHANGED <<thread_vars, render_vars, escape_vars>>

\* self.missing_timeout is assigned by the master between two starts
AssignMissingTimeout ==
    \E i \in VariantSlaves, timeout \in VariantTimeouts :
        /\ Exists(i) /\ variant[i] = "htcondor"
        /\ timeout # missing_timeout
        /\ missing_timeout' = timeout
        /\ last' = [op |-> "missing_timeout", slave |-> i, outcome |-> "success",
                    session |-> None, calls |-> <<>>, log |-> <<>>]
        /\ UNCHANGED <<session_vars, job_id, job_template, next_job, submitted,
                       terminate_issued, resolved, thread_vars, escape_vars, variant_vars>>
        /\ UNCHANGED <<slavename, password, kwargs, rw_first, ro_first, native_spec, rendered>>

SetJobOption ==
    \E i \in VariantSlaves, name \in SetterNames :
        \E value \in SetterValues(name) :
            /\ Exists(i) /\ variant[i] = "gridengine"
            /\ setter(i, name, value)
            /\ UNCHANGED <<session_vars, job_id, job_template, next_job, submitted,
                           terminate_issued, resolved, thread_vars, render_vars,
                           escape_vars, variant, job_resources, nativeSpecification>>

\* self.job_resources is assigned by the master between two starts
AssignJobResources ==
    \E i \in VariantSlaves, res \in ResourceChoices :
        /\ Exists(i) /\ variant[i] = "gridengine"
        /\ res # job_resources[i]
        /\ job_resources' = [job_resources EXCEPT ![i] = res]
        /\ last' = [op |-> "job_resources", slave |-> i, outcome |-> "success",
                    session |-> None, calls |-> <<>>, log |-> <<>>]
        /\ UNCHANGED <<session_vars, job_id, job_template, next_job, submitted,
                       terminate_issued, resolved, thread_vars, render_vars,
                       escape_vars, variant, job_options, nativeSpecification>>

StartHTCondor ==
    \E i \in VariantSlaves, connect \in ConnectAnswers, run \in RunJobOutcomes :
        /\ Exists(i) /\ variant[i] = "htcondor"
        /\ HTCondor_start_instance(i, connect, run)
        /\ UNCHANGED <<thread_vars, render_vars, escape_vars, variant, job_options,
                       job_resources>>

StartGridEngine ==
    \E i \in VariantSlaves, connect \in ConnectAnswers, run \in RunJobOutcomes,
       first \in 1..Len(OptionNames) :
        /\ Exists(i) /\ variant[i] = "gridengine"
        /\ GridEngine_start_instance(i, connect, run, first)
        /\ UNCHANGED <<thread_vars, render_vars, escape_vars, variant, job_options,
                       job_resources>>

StopVariant ==
    \E i \in VariantSlaves, connect \in ConnectAnswers, control \in ControlOutcomes :
        /\ UNCHANGED <<thread_vars, render_vars, escape_vars, variant_vars>>
        /\ stop_instance(i, connect, control)

NextVariants ==
    \/ ConstructHTCondor \/ ConstructGridEngine
    \/ AssignMissingTimeout \/ SetJobOption \/ AssignJobResources
    \/ StartHTCondor \/ StartGridEngine \/ StopVariant

SpecVariants == InitVariants /\ [][NextVariants]_vars

\* the texts a render made now would give for instance i
CurrentRenders(i) ==
    CASE variant[i] = "htcondor" ->
            {_setup_htcondor_template(slavename, password, missing_timeout, kwargs,
                                      rw_first, ro_first).text}
      [] variant[i] = "gridengine" ->
            {native_specification_string(job_options[i], job_resources[i], f).text :
                f \in 1..Len(OptionNames)}
      [] OTHER -> {}

\* C14: for both subclasses, the nativeSpecification of the template a
\* start_instance call hands to runJob is the text rendered from the option
\* values and the missing_timeout the instance has at that call, so a change
\* made between two submissions shows in the second one.
C14_FreshRenderEveryStart ==
    last.op = "start_instance" =>
        \A k \in CallsOf(last, "runJob") :
            last.calls[k].arg.nativeSpecification \in CurrentRenders(last.slave)

\* the options of instance i whose value is None or the empty string
EmptyOptions(i) ==
    {k \in DOMAIN job_options[i] :
        job_options[i][k] = None \/ job_options[i][k] = PyStr("")}

\* C18: in the text a GridEngine start_instance call submits, no option
\* whose value was set to the empty string or to None has its token, and such
\* a value does not make the call fail: a call that ends in an error is one
\* whose runJob call raised.
C18_EmptyOptionsOmitted ==
    (last.op = "start_instance" /\ variant[last.slave] = "gridengine") =>
        /\ last.outcome = "error"
              => \E k \in CallsOf(last, "runJob") : last.calls[k].answer = "error"
        /\ \A k \in CallsOf(last, "runJob") :
              \A e \in EmptyOptions(last.slave) :
                  grid_option_dictionary[e]
                      \notin Range(last.calls[k].arg.nativeSpecification)

\* the name=value piece of a resource
ResourcePiece(r) == r.name \o "=" \o r.value.v

\* C19: the text a GridEngine start_instance call submits is, for every
\* option the instance holds, its token, a blank, its value and a blank,
\* followed, exactly when job_resources is not empty, by one "-l " and every
\* resource as name=value with a comma between two of them and none before
\* the first or after the last; with the default options and resources the
\* text carries -q all.q, -N BuildSlave and arch=*.
C19_OptionsThenResources ==
    (last.op = "start_instance" /\ variant[last.slave] = "gridengine") =>
        \A c \in CallsOf(last, "runJob") :
            LET T       == last.calls[c].arg.nativeSpecification
                opts    == job_options[last.slave]
                res     == job_resources[last.slave]
                present == {k \in DOMAIN opts : opts[k] # Absent}
                nopt    == Cardinality(present)
                m       == Len(res)
            IN  /\ Len(T) = 4 * nopt + 2 * m
                /\ \A g \in 1..nopt :
                      \E k \in present :
                          /\ T[4 * g - 3] = grid_option_dictionary[k]
                          /\ T[4 * g - 2] = " "
                          /\ T[4 * g - 1] = opts[k].v
                          /\ T[4 * g] = " "
                /\ \A k \in present :
                      \E g \in 1..nopt : T[4 * g - 3] = grid_option_dictionary[k]
                /\ Cardinality({j \in 1..Len(T) : T[j] = "-l "})
                      = (IF m > 0 THEN 1 ELSE 0)
                /\ m > 0 =>
                      /\ T[4 * nopt + 1] = "-l "
                      /\ {T[4 * nopt + 2 * r] : r \in 1..m}
                            = {ResourcePiece(res[r]) : r \in 1..m}
                      /\ \A r \in 1..(m - 1) : T[4 * nopt + 2 * r + 1] = ","
                      /\ T[4 * nopt + 2] # "," /\ T[Len(T)] # ","
                /\ (opts = DefaultJobOptions /\ res = DefaultJobResources)
                      => {"-q", "all.q", "-N", "BuildSlave", "arch=*"} \subseteq Range(T)

C19_Witness ==
    /\ last.op = "start_instance" /\ last.outcome = "success"
    /\ variant[last.slave] = "gridengine"
    /\ job_options[last.slave]["queue"] = PyStr("fast.q")
    /\ Len(job_resources[last.slave]) = 2
    /\ \E c \in CallsOf(last, "runJob") :
          /\ Len(last.calls[c].arg.nativeSpecification) = 12
          /\ last.calls[c].arg.nativeSpecification[11] = ","

\* C21: a constructor call of either subclass that succeeds leaves
\* remoteCommand equal to the start command it was given; every later
\* start_instance and stop_instance call, whatever its outcome, leaves
\* remoteCommand as it was; a start_instance call changes, of the instance,
\* at most nativeSpecification and job_id, and a stop_instance call leaves
\* nativeSpecification as it was.
C21_RemoteCommandFixed ==
    [][\A i \in VariantSlaves :
          /\ \A cmd \in VariantStartCommands, connect \in ConnectOutcomes :
                (__init__(i, cmd, connect) /\ last'.outcome = "success")
                   => job_template'[i] # None
                        /\ job_template'[i].remoteCommand = cmd
          /\ (last'.op \in {"start_instance", "stop_instance"} /\ last'.slave = i) =>
                /\ job_template'[i] = job_template[i]
                /\ variant'[i] = variant[i]
                /\ job_options'[i] = job_options[i]
                /\ job_resources'[i] = job_resources[i]
                /\ inst_contact'[i] = inst_contact[i]
                /\ last'.op = "stop_instance"
                      => nativeSpecification'[i] = nativeSpecification[i]
          /\ Exists(i) => job_template'[i] = job_template[i]]_vars

C21_Witness ==
    \E i \in VariantSlaves :
        /\ variant[i] = "gridengine"
        /\ job_template[i].remoteCommand = "start_slave.sh"
        /\ last.op = "start_instance" /\ last.outcome = "error"
        /\ nativeSpecification[i] # <<>>
        /\ Cardinality(submitted[i]) = 1
        /\ job_id[i] = None

=============================================================================
